---- MODULE Spec2Model ----
(***************************************************************************)
(* A model of the software cache of cache.c / cache.h: a set-associative   *)
(* table of cache lines in front of OpenCL buffer creation and read-back.  *)
(* Host addresses are natural numbers (NULL is 0), device buffers are      *)
(* numbered in the order clCreateBuffer hands them out.                    *)
(***************************************************************************)
EXTENDS Integers, Sequences, FiniteSets, TLC

\* ------------------------------------------------------------------ bounds

\* Largest numberOfCacheLines passed to CreateCache by Spec.
MaxLines == 4
\* Host addresses are the multiples of 64 up to 64 * MaxAddrIndex.
MaxAddrIndex == 2
\* Calls of clCreateCacheBuffer / clEnqueueReadCacheBuffer per run.
MaxOps == 3
\* SpecCreate passes numberOfCacheLines in 1..MaxCreateLines and
\* dataSize in 0..MaxCreateData.
MaxCreateLines == 9
MaxCreateData == 64
\* SpecFifo: the lines, the host addresses and the calls of a run.
MaxLinesFifo == 2
MaxAddrFifo == 3
MaxOpsFifo == 4
\* SpecDM: the host addresses and the calls of a run.
MaxAddrDM == 4
MaxOpsDM == 6
\* SpecUse: the lines, the host addresses and the calls of a run.
MaxLinesUse == 2
MaxAddrUse == 2
MaxOpsUse == 5

\* ------------------------------------------------------------- enumerations

Configs == {"direct_mapped", "two_way", "four_way", "fully_associative"}
Policies == {"random_RP", "fifo_RP", "lru_RP", "mru_RP", "lfu_RP", "mfu_RP"}

NULL == 0
Addr == {64 * k : k \in 0..MaxAddrIndex}
AddrFifo == {64 * k : k \in 0..MaxAddrFifo}
AddrDM == {64 * k : k \in 0..MaxAddrDM}
AddrUse == {64 * k : k \in 0..MaxAddrUse}

\* cl_mem values: a buffer number, the NULL clCreateBuffer returns on failure,
\* the indeterminate content of a deviceData field that was never assigned,
\* and whatever lies in memory in front of a set's array of lines.
NullMem == 0
Uninit == -1
Garbage == -2

\* Return values of clEnqueueReadCacheBuffer.
Success == 0
Miss == 1

\* ---------------------------------------------------------------- arithmetic

RECURSIVE Pow2(_)
Pow2(k) == IF k <= 0 THEN 1 ELSE 2 * Pow2(k - 1)

\* ceil(log10(n) / log10(2)) for n >= 1; the double computation agrees with
\* the exact value for every n up to 70000.
RECURSIVE CeilLog2From(_, _)
CeilLog2From(n, k) == IF Pow2(k) >= n THEN k ELSE CeilLog2From(n, k + 1)
CeilLog2(n) == CeilLog2From(n, 0)

\* (int)(pow(2, indexSize) - 1): a negative indexSize gives -0.5 or -0.75,
\* which the conversion truncates to 0.
MaskOf(indexSize) == IF indexSize < 0 THEN 0 ELSE Pow2(indexSize) - 1

RECURSIVE BitAnd(_, _)
BitAnd(x, y) ==
  IF x = 0 \/ y = 0 THEN 0
  ELSE (x % 2) * (y % 2) + 2 * BitAnd(x \div 2, y \div 2)

\* A loop that tests 2^s where the source tests 2^(s + 1).
RECURSIVE ShiftLoopLate(_, _)
ShiftLoopLate(dataSize, s) ==
  IF s < dataSize /\ dataSize % Pow2(s) = 0
  THEN ShiftLoopLate(dataSize, s + 1)
  ELSE s

\* The loop that derives addressBitShift from dataSize.
RECURSIVE ShiftLoop(_, _)
ShiftLoop(dataSize, s) ==
  IF s < dataSize /\ dataSize % Pow2(s + 1) = 0
  THEN ShiftLoop(dataSize, s + 1)
  ELSE s
AddressBitShift(dataSize) == ShiftLoop(dataSize, 0)

\* --------------------------------------------------------------- CreateCache

NumberOfSets(n, config) ==
  CASE config = "direct_mapped" -> n
    [] config = "two_way" -> n \div 2
    [] config = "four_way" -> n \div 4
    [] config = "fully_associative" -> 1

NumberOfLinesPerSet(n, config) ==
  CASE config = "direct_mapped" -> 1
    [] config = "two_way" -> 2
    [] config = "four_way" -> 4
    [] config = "fully_associative" -> n

IndexSize(n, config) ==
  CASE config = "direct_mapped" -> CeilLog2(n)
    [] config = "two_way" -> CeilLog2(n) - 1
    [] config = "four_way" -> CeilLog2(n) - 2
    [] config = "fully_associative" -> 1

IndexBitMask(n, config) ==
  IF config = "fully_associative" THEN 0 ELSE MaskOf(IndexSize(n, config))

\* A line as CreateCache leaves it; deviceData is not assigned there.
InitLine == [valid |-> FALSE, tag |-> NULL, accessedOrder |-> 0, deviceData |-> Uninit]

\* The Cache_t that CreateCache returns.
NewCache(numberOfCacheLines, dataSize, tagSize, config, policy) ==
  [ memCopies |-> 0,
    ReadTransfers |-> 0,
    WriteTransfers |-> 0,
    tagSize |-> tagSize,
    dataSize |-> dataSize,
    indexBitMask |-> IndexBitMask(numberOfCacheLines, config),
    addressBitShift |-> AddressBitShift(dataSize),
    numberOfLinesPerSet |-> NumberOfLinesPerSet(numberOfCacheLines, config),
    numberOfSets |-> NumberOfSets(numberOfCacheLines, config),
    config |-> config,
    policy |-> policy,
    cacheLine |-> [i \in 0..(NumberOfSets(numberOfCacheLines, config) - 1) |->
                    [j \in 0..(NumberOfLinesPerSet(numberOfCacheLines, config) - 1) |->
                      InitLine]],
    replacementLine |-> [i \in 0..(NumberOfSets(numberOfCacheLines, config) - 1) |-> 0] ]

\* ------------------------------------------------------------------ GetIndex

ShiftRight(x, s) == x \div Pow2(s)

\* An index taken from the low bits of the address, without the shift.
GetIndexUnshifted(indexBitMask, addressBitShift, hostAddress) ==
  BitAnd(hostAddress, indexBitMask)

GetIndex(indexBitMask, addressBitShift, hostAddress) ==
  BitAnd(ShiftRight(hostAddress, addressBitShift), indexBitMask)

\* -------------------------------------------------------------------- GetWay

Ways(c) == 0..(c.numberOfLinesPerSet - 1)

\* The test of GetWay's loop, of clCreateCacheBuffer and of
\* clEnqueueReadCacheBuffer: the line is valid and carries the tag.
LineMatches(line, hostAddress) == line.valid /\ line.tag = hostAddress

\* A loop that ends after the way it starts at.
FindWayFirstOnly(Set, hostAddress, way, numberOfLinesPerSet) ==
  IF way < numberOfLinesPerSet /\ LineMatches(Set[way], hostAddress)
  THEN way ELSE -1

\* The first way of the set that holds hostAddress, -1 when the loop ends
\* without a match.
RECURSIVE FindWay(_, _, _, _)
FindWay(Set, hostAddress, way, numberOfLinesPerSet) ==
  IF way >= numberOfLinesPerSet THEN -1
  ELSE IF LineMatches(Set[way], hostAddress) THEN way
  ELSE FindWay(Set, hostAddress, way + 1, numberOfLinesPerSet)

\* A hit that stores the cursor as it was before it moved on.
StaleOrderOnHit(way, setIndex, c) ==
  IF c.policy \in {"lru_RP", "mru_RP"}
  THEN [c EXCEPT !.replacementLine[setIndex] = @ + 1,
                 !.cacheLine[setIndex][way].accessedOrder =
                     c.replacementLine[setIndex]]
  ELSE IF c.policy \in {"lfu_RP", "mfu_RP"}
  THEN [c EXCEPT !.cacheLine[setIndex][way].accessedOrder = @ + 1]
  ELSE c

\* A hit that leaves the bookkeeping out.
ForgetHit(way, setIndex, c) == c

\* The bookkeeping GetWay does for the way it found.
UpdateOnHit(way, setIndex, c) ==
  IF c.policy \in {"lru_RP", "mru_RP"}
  THEN [c EXCEPT !.replacementLine[setIndex] = @ + 1,
                 !.cacheLine[setIndex][way].accessedOrder =
                     c.replacementLine[setIndex] + 1]
  ELSE IF c.policy \in {"lfu_RP", "mfu_RP"}
  THEN [c EXCEPT !.cacheLine[setIndex][way].accessedOrder = @ + 1]
  ELSE c

\* GetWay returns a way and may update the cache: both are in the result.
GetWay(hostAddress, setIndex, c) ==
  IF c.config = "direct_mapped" THEN [way |-> 0, cache |-> c]
  ELSE LET way == FindWay(c.cacheLine[setIndex], hostAddress, 0,
                          c.numberOfLinesPerSet)
       IN IF way = -1 THEN [way |-> -1, cache |-> c]
          ELSE [way |-> way, cache |-> UpdateOnHit(way, setIndex, c)]

\* -------------------------------------------------------------------- SetWay

\* A search for an empty way that finds none.
NoneEmpty(Set, way, numberOfLinesPerSet) == -1

\* The loop of random_RP: the first way that is not valid, -1 when all are.
RECURSIVE FirstEmpty(_, _, _)
FirstEmpty(Set, way, numberOfLinesPerSet) ==
  IF way >= numberOfLinesPerSet THEN -1
  ELSE IF Set[way].valid # TRUE THEN way
  ELSE FirstEmpty(Set, way + 1, numberOfLinesPerSet)

\* The loop with <= for <: the last way with the lowest accessedOrder.
RECURSIVE ScanLowestOrEqual(_, _, _, _)
ScanLowestOrEqual(Set, way, replacementWay, numberOfLinesPerSet) ==
  IF way >= numberOfLinesPerSet THEN replacementWay
  ELSE ScanLowestOrEqual(Set, way + 1,
                         IF Set[way].accessedOrder <= Set[replacementWay].accessedOrder
                         THEN way ELSE replacementWay,
                         numberOfLinesPerSet)

\* The loop of lru_RP and lfu_RP: the first way with the lowest accessedOrder.
RECURSIVE ScanLowest(_, _, _, _)
ScanLowest(Set, way, replacementWay, numberOfLinesPerSet) ==
  IF way >= numberOfLinesPerSet THEN replacementWay
  ELSE ScanLowest(Set, way + 1,
                  IF Set[way].accessedOrder < Set[replacementWay].accessedOrder
                  THEN way ELSE replacementWay,
                  numberOfLinesPerSet)

\* The loop with its comparison turned round.
RECURSIVE ScanTurned(_, _, _, _)
ScanTurned(Set, way, replacementWay, numberOfLinesPerSet) ==
  IF way >= numberOfLinesPerSet THEN replacementWay
  ELSE IF Set[way].valid # TRUE THEN way
  ELSE ScanTurned(Set, way + 1,
                  IF Set[way].accessedOrder < Set[replacementWay].accessedOrder
                  THEN way ELSE replacementWay,
                  numberOfLinesPerSet)

\* The loop of mru_RP and mfu_RP: it stops at the first way that is not
\* valid, and otherwise keeps the first way with the highest accessedOrder.
RECURSIVE ScanHighest(_, _, _, _)
ScanHighest(Set, way, replacementWay, numberOfLinesPerSet) ==
  IF way >= numberOfLinesPerSet THEN replacementWay
  ELSE IF Set[way].valid # TRUE THEN way
  ELSE ScanHighest(Set, way + 1,
                   IF Set[way].accessedOrder > Set[replacementWay].accessedOrder
                   THEN way ELSE replacementWay,
                   numberOfLinesPerSet)

\* A cursor that stays where it is.
FifoStay(setIndex, c) == c.replacementLine[setIndex]

\* case fifo_RP: the cursor of the set moves on and names the way.
FifoNext(setIndex, c) ==
  (c.replacementLine[setIndex] + 1) % c.numberOfLinesPerSet

\* SetWay; randValue is what rand() returns when random_RP calls it.
SetWay(setIndex, c, randValue) ==
  LET Set == c.cacheLine[setIndex]
      n == c.numberOfLinesPerSet
  IN CASE c.policy = "random_RP" ->
            LET e == FirstEmpty(Set, 0, n)
            IN [way |-> IF e # -1 THEN e ELSE randValue % n, cache |-> c]
       [] c.policy = "fifo_RP" ->
            [way |-> FifoNext(setIndex, c),
             cache |-> [c EXCEPT !.replacementLine[setIndex] = FifoNext(setIndex, c)]]
       [] c.policy = "lru_RP" ->
            LET w == ScanLowest(Set, 0, 0, n)
            IN [way |-> w,
                cache |-> [c EXCEPT !.replacementLine[setIndex] = @ + 1,
                                    !.cacheLine[setIndex][w].accessedOrder =
                                        c.replacementLine[setIndex] + 1]]
       [] c.policy = "mru_RP" ->
            LET w == ScanHighest(Set, 0, 0, n)
            IN [way |-> w,
                cache |-> [c EXCEPT !.replacementLine[setIndex] = @ + 1,
                                    !.cacheLine[setIndex][w].accessedOrder =
                                        c.replacementLine[setIndex] + 1]]
       [] c.policy = "lfu_RP" ->
            LET w == ScanLowest(Set, 0, 0, n)
            IN [way |-> w,
                cache |-> [c EXCEPT !.cacheLine[setIndex][w].accessedOrder = 1]]
       [] c.policy = "mfu_RP" ->
            LET w == ScanHighest(Set, 0, 0, n)
            IN [way |-> w,
                cache |-> [c EXCEPT !.cacheLine[setIndex][w].accessedOrder = 1]]

\* --------------------------------------------------------------------- state

VARIABLES
  phase,      \* "none" before CreateCache, "live", "freed" after FreeCache
  cachePtr,   \* the Cache_t
  buffers,    \* how many buffers clCreateBuffer has handed out
  last,       \* the last call: its arguments, what it returned, what it called
  nOps,       \* calls of clCreateCacheBuffer and clEnqueueReadCacheBuffer so far
  resolved,   \* the host addresses passed to clCreateCacheBuffer so far
  inserted,   \* per set, the resident addresses in the order they came in
  touched,    \* per set, the resident addresses in the order of their last use
  released    \* the cl_mem values FreeCache passed to clReleaseMemObject

vars == <<phase, cachePtr, buffers, last, nOps, resolved, inserted, touched, released>>

NoCache == [config |-> "none"]

\* What is recorded of a call: its arguments (op .. copy), what it found
\* (set, way as GetWay returned it, written: the way the call stored a buffer
\* in, -1 when it stored none, resident and stored: whether a valid line
\* held the address before the call, and the deviceData of that line), what
\* it returned and called (ret .. oob; ok is FALSE when the OpenCL call it
\* made failed; oob is TRUE when it read cacheLine[set][-1]), and what it
\* changed (contentsChanged: some line's valid, tag or deviceData;
\* cacheChanged: anything in the Cache_t; the growth of the three counters).
NoCall ==
  [op |-> "none", numberOfCacheLines |-> 0,
   hostAddress |-> NULL, copy |-> FALSE, set |-> 0, way |-> 0, written |-> -1,
   resident |-> FALSE, stored |-> Uninit, ret |-> NullMem,
   createCalled |-> FALSE, readCalled |-> FALSE, ok |-> TRUE, oob |-> FALSE,
   contentsChanged |-> FALSE, cacheChanged |-> FALSE,
   dMemCopies |-> 0, dReadTransfers |-> 0, dWriteTransfers |-> 0]

\* hostAddress is held by a valid line of its set.
Resident(c, hostAddress) ==
  LET set == GetIndex(c.indexBitMask, c.addressBitShift, hostAddress)
  IN \E w \in Ways(c) : LineMatches(c.cacheLine[set][w], hostAddress)

Sets(c) == 0..(c.numberOfSets - 1)

\* The addresses that the valid lines of a set hold.
ResidentIn(c, set) ==
  {c.cacheLine[set][w].tag : w \in {x \in Ways(c) : c.cacheLine[set][x].valid}}

\* The order of arrival after a call took the cache from pre to post: the
\* addresses that are no longer resident leave, an address that was not
\* resident and is now joins at the end.
Arrivals(order, pre, post, hostAddress) ==
  [s \in Sets(pre) |->
     LET kept == SelectSeq(order[s], LAMBDA a : a \in ResidentIn(post, s))
     IN IF hostAddress \in ResidentIn(post, s) \ ResidentIn(pre, s)
        THEN Append(kept, hostAddress)
        ELSE kept]

\* The order of last use after a call on hostAddress left the cache as post:
\* the addresses that are no longer resident leave, and hostAddress, when it is
\* resident, is the last one used.
Uses(order, post, hostAddress) ==
  [s \in Sets(post) |->
     LET kept == SelectSeq(order[s], LAMBDA a : a \in ResidentIn(post, s)
                                                /\ a # hostAddress)
     IN IF s = GetIndex(post.indexBitMask, post.addressBitShift, hostAddress)
           /\ hostAddress \in ResidentIn(post, s)
        THEN Append(kept, hostAddress)
        ELSE SelectSeq(order[s], LAMBDA a : a \in ResidentIn(post, s))]

\* The two caches agree on every line's valid flag, tag and deviceData.
SameContents(c1, c2) ==
  \A s \in Sets(c1) : \A w \in Ways(c1) :
    /\ c2.cacheLine[s][w].valid = c1.cacheLine[s][w].valid
    /\ c2.cacheLine[s][w].tag = c1.cacheLine[s][w].tag
    /\ c2.cacheLine[s][w].deviceData = c1.cacheLine[s][w].deviceData

\* The deviceData of the line that holds hostAddress.
StoredHandle(c, hostAddress) ==
  LET set == GetIndex(c.indexBitMask, c.addressBitShift, hostAddress)
      way == FindWay(c.cacheLine[set], hostAddress, 0, c.numberOfLinesPerSet)
  IN IF way = -1 THEN Uninit ELSE c.cacheLine[set][way].deviceData

\* The record of a call that took the cache from pre to post.
CallRecord(op, hostAddress, copy, pre, post, r, ok) ==
  [NoCall EXCEPT
     !.op = op, !.hostAddress = hostAddress, !.copy = copy,
     !.set = r.set, !.way = r.way, !.written = r.written,
     !.resident = Resident(pre, hostAddress),
     !.stored = StoredHandle(pre, hostAddress),
     !.ret = r.ret, !.createCalled = r.createCalled,
     !.readCalled = r.readCalled, !.ok = ok, !.oob = r.oob,
     !.contentsChanged = ~SameContents(pre, post),
     !.cacheChanged = (post # pre),
     !.dMemCopies = post.memCopies - pre.memCopies,
     !.dReadTransfers = post.ReadTransfers - pre.ReadTransfers,
     !.dWriteTransfers = post.WriteTransfers - pre.WriteTransfers]

\* ------------------------------------------------------- clCreateCacheBuffer

\* A test that never finds the line in place: every call transfers.
AlwaysTransfer(c, copy, set, way, hostAddress, oobMatches) == FALSE

\* The test in front of the transfer. cacheLine[set][-1] lies in front of the
\* set's array: what the test reads there is not determined by the program,
\* so its outcome is the input oobMatches. The flag is tested first, and
\* without it the line is not read at all.
SkipTransfer(c, copy, set, way, hostAddress, oobMatches) ==
  copy /\ (IF way = -1 THEN oobMatches
           ELSE LineMatches(c.cacheLine[set][way], hostAddress))

\* A store that first releases the buffer the line held.
ReleasePrevious(line) == IF line.valid THEN <<line.deviceData>> ELSE <<>>

\* What clCreateCacheBuffer passes to clReleaseMemObject before it stores a
\* buffer in a line: it has no such call.
ReleasedOnStore(line) == <<>>

\* A store that marks the line valid only when it got a buffer.
StoreLineIfCreated(c, set, way, hostAddress, copy, newMem) ==
  [c EXCEPT !.cacheLine[set][way].deviceData = newMem,
            !.memCopies = @ + 1,
            !.WriteTransfers = IF copy THEN @ + 1 ELSE @,
            !.cacheLine[set][way].tag = hostAddress,
            !.cacheLine[set][way].valid = (newMem # NullMem)]

\* What the transfer branch stores in the line and counts. newMem is the
\* cl_mem clCreateBuffer returned: NullMem when it failed.
StoreLine(c, set, way, hostAddress, copy, newMem) ==
  [c EXCEPT !.cacheLine[set][way].deviceData = newMem,
            !.memCopies = @ + 1,
            !.WriteTransfers = IF copy THEN @ + 1 ELSE @,
            !.cacheLine[set][way].tag = hostAddress,
            !.cacheLine[set][way].valid = TRUE]

\* clCreateCacheBuffer as a function of the cache and its inputs: the cache
\* afterwards, the cl_mem returned, and what was called on the way.
CreateCacheBufferResult(c, copy, hostAddress, createOk, oobMatches, randValue, newMem) ==
  LET set == GetIndex(c.indexBitMask, c.addressBitShift, hostAddress)
      g == GetWay(hostAddress, set, c)
  IN IF SkipTransfer(g.cache, copy, set, g.way, hostAddress, oobMatches)
     THEN [cache |-> g.cache,
           ret |-> IF g.way = -1 THEN Garbage
                   ELSE g.cache.cacheLine[set][g.way].deviceData,
           set |-> set, way |-> g.way, written |-> -1, createCalled |-> FALSE,
           readCalled |-> FALSE, oob |-> g.way = -1]
     ELSE LET s == IF g.way = -1 THEN SetWay(set, g.cache, randValue)
                   ELSE [way |-> g.way, cache |-> g.cache]
              mem == IF createOk THEN newMem ELSE NullMem
              c2 == StoreLine(s.cache, set, s.way, hostAddress, copy, mem)
          IN [cache |-> c2,
              ret |-> c2.cacheLine[set][s.way].deviceData,
              set |-> set, way |-> g.way, written |-> s.way, createCalled |-> TRUE,
              readCalled |-> FALSE, oob |-> copy /\ g.way = -1]

\* The values rand() % numberOfLinesPerSet can take where SetWay uses it.
RandValues(c) == IF c.policy = "random_RP" THEN Ways(c) ELSE {0}

\* The outcomes of reading in front of the array, where a call can do it.
OobOutcomes(c, hostAddress) ==
  LET set == GetIndex(c.indexBitMask, c.addressBitShift, hostAddress)
  IN IF GetWay(hostAddress, set, c).way = -1 THEN BOOLEAN ELSE {FALSE}

clCreateCacheBuffer(copy, hostAddress, createOk, maxOps) ==
  /\ phase = "live"
  /\ nOps < maxOps
  /\ \E oobMatches \in (IF copy THEN OobOutcomes(cachePtr, hostAddress) ELSE {FALSE}) :
     \E randValue \in RandValues(cachePtr) :
       LET r == CreateCacheBufferResult(cachePtr, copy, hostAddress, createOk,
                                        oobMatches, randValue, buffers + 1)
       IN /\ cachePtr' = r.cache
          /\ buffers' = IF r.createCalled /\ createOk THEN buffers + 1 ELSE buffers
          /\ last' = CallRecord("resolve", hostAddress, copy, cachePtr, r.cache,
                                 r, r.createCalled => createOk)
  /\ inserted' = Arrivals(inserted, cachePtr, cachePtr', hostAddress)
  /\ touched' = Uses(touched, cachePtr', hostAddress)
  /\ released' = IF last'.written = -1 THEN released
                 ELSE released \o ReleasedOnStore(cachePtr.cacheLine[last'.set][last'.written])
  /\ nOps' = nOps + 1
  /\ resolved' = resolved \cup {hostAddress}
  /\ UNCHANGED phase

\* -------------------------------------------------- clEnqueueReadCacheBuffer

\* The test in front of the read-back; see SkipTransfer for way = -1.
ReadHit(c, set, way, hostAddress, oobMatches) ==
  IF way = -1 THEN oobMatches
  ELSE LineMatches(c.cacheLine[set][way], hostAddress)

\* What a read-back counts; readOk is whether clEnqueueReadBuffer succeeded.
CountRead(c, readOk) ==
  [c EXCEPT !.memCopies = @ + 1, !.ReadTransfers = @ + 1]

\* The value returned after clEnqueueReadBuffer was called.
ReadReturn(readOk) == Success

\* A read-back that drops the line it has read.
ReadAndDrop(c, hostAddress, readOk, oobMatches) ==
  LET set == GetIndex(c.indexBitMask, c.addressBitShift, hostAddress)
      g == GetWay(hostAddress, set, c)
  IN IF ReadHit(g.cache, set, g.way, hostAddress, oobMatches)
     THEN [cache |-> IF g.way = -1 THEN CountRead(g.cache, readOk)
                     ELSE [CountRead(g.cache, readOk) EXCEPT
                             !.cacheLine[set][g.way].valid = FALSE],
           ret |-> ReadReturn(readOk),
           set |-> set, way |-> g.way, written |-> -1, createCalled |-> FALSE,
           readCalled |-> TRUE, oob |-> g.way = -1]
     ELSE [cache |-> g.cache, ret |-> Miss,
           set |-> set, way |-> g.way, written |-> -1, createCalled |-> FALSE,
           readCalled |-> FALSE, oob |-> g.way = -1]

ReadCacheBufferResult(c, hostAddress, readOk, oobMatches) ==
  LET set == GetIndex(c.indexBitMask, c.addressBitShift, hostAddress)
      g == GetWay(hostAddress, set, c)
  IN IF ReadHit(g.cache, set, g.way, hostAddress, oobMatches)
     THEN [cache |-> CountRead(g.cache, readOk), ret |-> ReadReturn(readOk),
           set |-> set, way |-> g.way, written |-> -1, createCalled |-> FALSE,
           readCalled |-> TRUE, oob |-> g.way = -1]
     ELSE [cache |-> g.cache, ret |-> Miss,
           set |-> set, way |-> g.way, written |-> -1, createCalled |-> FALSE,
           readCalled |-> FALSE, oob |-> g.way = -1]

clEnqueueReadCacheBuffer(hostAddress, readOk, maxOps) ==
  /\ phase = "live"
  /\ nOps < maxOps
  /\ \E oobMatches \in OobOutcomes(cachePtr, hostAddress) :
       LET r == ReadCacheBufferResult(cachePtr, hostAddress, readOk, oobMatches)
       IN /\ cachePtr' = r.cache
          /\ last' = CallRecord("read", hostAddress, FALSE, cachePtr, r.cache,
                                 r, r.readCalled => readOk)
  /\ touched' = Uses(touched, cachePtr', hostAddress)
  /\ nOps' = nOps + 1
  /\ UNCHANGED <<phase, buffers, resolved, inserted, released>>

\* ----------------------------------------------------------------- FreeCache

\* Loops that pass over the lines that are not valid.
RECURSIVE ValidLinesFrom(_, _, _)
ValidLinesFrom(c, i, j) ==
  IF i >= c.numberOfSets THEN <<>>
  ELSE IF j >= c.numberOfLinesPerSet THEN ValidLinesFrom(c, i + 1, 0)
  ELSE (IF c.cacheLine[i][j].valid THEN <<c.cacheLine[i][j].deviceData>> ELSE <<>>)
       \o ValidLinesFrom(c, i, j + 1)

\* The deviceData of every line, in the order of FreeCache's loops.
RECURSIVE LinesFrom(_, _, _)
LinesFrom(c, i, j) ==
  IF i >= c.numberOfSets THEN <<>>
  ELSE IF j >= c.numberOfLinesPerSet THEN LinesFrom(c, i + 1, 0)
  ELSE <<c.cacheLine[i][j].deviceData>> \o LinesFrom(c, i, j + 1)

FreeCache ==
  /\ phase = "live"
  /\ phase' = "freed"
  /\ released' = released \o LinesFrom(cachePtr, 0, 0)
  /\ cachePtr' = NoCache
  /\ last' = [NoCall EXCEPT !.op = "free"]
  /\ nOps' = 0
  /\ resolved' = {}
  /\ inserted' = <<>>
  /\ touched' = <<>>
  /\ UNCHANGED buffers

\* --------------------------------------------------------------- CreateCache

IsPowerOfTwo(n) == \E k \in 0..n : Pow2(k) = n

\* The parameters the header asks for: a power of two as the number of lines,
\* enough lines for one set, and a line that holds data.
ValidParams(n, dataSize, config) ==
  /\ IsPowerOfTwo(n)
  /\ dataSize # 0
  /\ NumberOfLinesPerSet(n, config) <= n

CreateCache(numberOfCacheLines, dataSize, tagSize, config, policy) ==
  /\ phase = "none"
  /\ phase' = "live"
  /\ cachePtr' = NewCache(numberOfCacheLines, dataSize, tagSize, config, policy)
  /\ last' = [NoCall EXCEPT !.op = "create", !.numberOfCacheLines = numberOfCacheLines]
  /\ inserted' = [s \in 0..(NumberOfSets(numberOfCacheLines, config) - 1) |-> <<>>]
  /\ touched' = [s \in 0..(NumberOfSets(numberOfCacheLines, config) - 1) |-> <<>>]
  /\ UNCHANGED <<buffers, nOps, resolved, released>>

Init ==
  /\ phase = "none"
  /\ cachePtr = NoCache
  /\ buffers = 0
  /\ last = NoCall
  /\ nOps = 0
  /\ resolved = {}
  /\ inserted = <<>>
  /\ touched = <<>>
  /\ released = <<>>

\* Spec: every configuration and policy, with the parameters the header
\* documents, every interleaving of a few calls, and a backing store that
\* may fail each call.
Next ==
  \/ \E n \in 1..MaxLines, config \in Configs, policy \in Policies :
       /\ ValidParams(n, 64, config)
       /\ CreateCache(n, 64, 32, config, policy)
  \/ \E copy \in BOOLEAN, hostAddress \in Addr, createOk \in BOOLEAN :
       clCreateCacheBuffer(copy, hostAddress, createOk, MaxOps)
  \/ \E hostAddress \in Addr, readOk \in BOOLEAN :
       clEnqueueReadCacheBuffer(hostAddress, readOk, MaxOps)
  \/ FreeCache

Spec == Init /\ [][Next]_vars

\* Construction alone, over every parameter in range, valid or not.
NextCreate ==
  \E n \in 1..MaxCreateLines, dataSize \in 0..MaxCreateData,
     config \in Configs, policy \in Policies :
       CreateCache(n, dataSize, 32, config, policy)

SpecCreate == Init /\ [][NextCreate]_vars

\* The direct-mapped cache of four lines of 64 bytes, with the policy the
\* demonstration passes, a backing store that works, and longer runs.
NextDM ==
  \/ CreateCache(4, 64, 32, "direct_mapped", "random_RP")
  \/ \E copy \in BOOLEAN, hostAddress \in AddrDM :
       clCreateCacheBuffer(copy, hostAddress, TRUE, MaxOpsDM)
  \/ \E hostAddress \in AddrDM : clEnqueueReadCacheBuffer(hostAddress, TRUE, MaxOpsDM)
  \/ FreeCache

SpecDM == Init /\ [][NextDM]_vars

\* The FIFO caches alone, a backing store that works, and longer runs.
NextFifo ==
  \/ \E n \in 1..MaxLinesFifo, config \in Configs :
       /\ ValidParams(n, 64, config)
       /\ CreateCache(n, 64, 32, config, "fifo_RP")
  \/ \E copy \in BOOLEAN, hostAddress \in AddrFifo :
       clCreateCacheBuffer(copy, hostAddress, TRUE, MaxOpsFifo)
  \/ \E hostAddress \in AddrFifo : clEnqueueReadCacheBuffer(hostAddress, TRUE, MaxOpsFifo)
  \/ FreeCache

SpecFifo == Init /\ [][NextFifo]_vars

\* The policies that order the lines by their use (lru, mru, lfu, mfu), a
\* backing store that works, and runs long enough to fill a set of two
\* lines, use its lines and evict.
NextUse ==
  \/ \E n \in 1..MaxLinesUse, config \in Configs,
        policy \in {"lru_RP", "mru_RP", "lfu_RP", "mfu_RP"} :
       /\ ValidParams(n, 64, config)
       /\ CreateCache(n, 64, 32, config, policy)
  \/ \E copy \in BOOLEAN, hostAddress \in AddrUse :
       clCreateCacheBuffer(copy, hostAddress, TRUE, MaxOpsUse)
  \/ \E hostAddress \in AddrUse : clEnqueueReadCacheBuffer(hostAddress, TRUE, MaxOpsUse)
  \/ FreeCache

SpecUse == Init /\ [][NextUse]_vars

\* ============================================================ the properties

\* The last call left the table and the counters alone and returned the
\* deviceData that the line of hostAddress held.
HitIsKept ==
  /\ last.ret = last.stored
  /\ ~last.createCalled
  /\ last.dMemCopies = 0 /\ last.dReadTransfers = 0 /\ last.dWriteTransfers = 0
  /\ ~last.contentsChanged

\* C1 as the specification states it: clCreateCacheBuffer on a resident
\* address, called without host content to copy (CL_MEM_COPY_HOST_PTR is not
\* among the flags), returns the handle the line holds, calls clCreateBuffer
\* not at all, and changes no counter and no line's tag, valid flag or handle.
C1_AsStated ==
  (last.op = "resolve" /\ last.resident /\ ~last.copy) => HitIsKept

\* C1, amended: clCreateCacheBuffer on a resident address, called with
\* CL_MEM_COPY_HOST_PTR among the flags, returns the handle the line holds,
\* calls clCreateBuffer not at all, and changes no counter and no line's tag,
\* valid flag or handle.
C1_HitWithCopyIsKept ==
  (last.op = "resolve" /\ last.resident /\ last.copy) => HitIsKept

\* A resident address was resolved with CL_MEM_COPY_HOST_PTR, and the buffer
\* that the earlier call created came back.
C1_Witness ==
  /\ last.op = "resolve" /\ last.resident /\ last.copy
  /\ last.ret = buffers /\ buffers = 1
  /\ cachePtr.memCopies = 1

\* C2: clCreateCacheBuffer calls clCreateBuffer, and counts one copy, exactly
\* when the address is not resident or CL_MEM_COPY_HOST_PTR is not given;
\* with the flag and the address resident it returns the resident handle.
C2_TransferIffAbsentOrForced ==
  last.op = "resolve" =>
    /\ last.createCalled <=> (~last.resident \/ ~last.copy)
    /\ last.dMemCopies = (IF ~last.resident \/ ~last.copy THEN 1 ELSE 0)
    /\ (last.resident /\ last.copy) => last.ret = last.stored

\* C3: when clCreateBuffer fails, the caller gets the failure and the cache
\* is as before: no line's tag, valid flag or handle has changed, and neither
\* memCopies nor WriteTransfers.
C3_FailedCreateLeavesCache ==
  (last.op = "resolve" /\ last.createCalled /\ ~last.ok) =>
    /\ last.ret = NullMem
    /\ ~last.contentsChanged
    /\ last.dMemCopies = 0
    /\ last.dWriteTransfers = 0

\* C4: clEnqueueReadCacheBuffer on an address that is not resident returns
\* Miss, does not call clEnqueueReadBuffer, and changes no counter, no line
\* and no cursor.
C4_ReadMissChangesNothing ==
  (last.op = "read" /\ ~last.resident) =>
    /\ last.ret = Miss
    /\ ~last.readCalled
    /\ ~last.cacheChanged

\* C5: clEnqueueReadCacheBuffer on a resident address calls
\* clEnqueueReadBuffer; when that succeeds it returns Success and memCopies
\* and ReadTransfers each grow by 1; when it fails the result is not Success
\* and both counters are as before.
C5_ReadHitCountsOnSuccess ==
  (last.op = "read" /\ last.resident) =>
    /\ last.readCalled
    /\ last.ok => (last.ret = Success /\ last.dMemCopies = 1
                   /\ last.dReadTransfers = 1)
    /\ ~last.ok => (last.ret # Success /\ last.dMemCopies = 0
                    /\ last.dReadTransfers = 0)

\* The addresses that valid lines hold.
ResidentSet(c) ==
  {c.cacheLine[s][w].tag : <<s, w>> \in
     {x \in Sets(c) \X Ways(c) : c.cacheLine[x[1]][x[2]].valid}}

\* C6: no call of clEnqueueReadCacheBuffer, hit or miss, changes a line's
\* valid flag, tag or deviceData, and the set of resident addresses changes
\* only in a call of clCreateCacheBuffer.
C6_ReadNeverEvicts ==
  /\ [](last.op = "read" => ~last.contentsChanged)
  /\ [][(phase = "live" /\ phase' = "live"
         /\ ResidentSet(cachePtr') # ResidentSet(cachePtr))
        => (last'.op = "resolve" /\ nOps' = nOps + 1)]_vars

\* A read-back found its address and the address is still resident.
C6_Witness ==
  /\ last.op = "read" /\ last.readCalled /\ last.resident
  /\ Resident(cachePtr, last.hostAddress)
  /\ cachePtr.ReadTransfers = 1

\* C7: CreateCache returns a cache only for a power-of-two numberOfCacheLines,
\* a dataSize other than 0 and a configuration whose lines per set do not
\* exceed numberOfCacheLines.
C7_CreateValidates ==
  (phase = "live" /\ last.op = "create") =>
    ValidParams(last.numberOfCacheLines, cachePtr.dataSize, cachePtr.config)

\* The set of a direct-mapped cache of four lines of 64 bytes that an address
\* belongs to, as the specification gives it: 0, 64, 128, 192, 256 belong to
\* 0, 1, 2, 3, 0.
ExpectedSetDM(hostAddress) == (hostAddress \div 64) % 4

\* After a call of clCreateCacheBuffer the line of the address holds it, the
\* lines of the other sets are as before, and exactly the addresses of the
\* same set that were resident before are not resident any more.
DMResolveStep ==
  (phase = "live" /\ last'.op = "resolve" /\ nOps' = nOps + 1) =>
    LET a == last'.hostAddress
        s == ExpectedSetDM(a)
    IN /\ last'.set = s
       /\ cachePtr'.cacheLine[s][0].valid
       /\ cachePtr'.cacheLine[s][0].tag = a
       /\ \A t \in Sets(cachePtr) \ {s} :
            cachePtr'.cacheLine[t] = cachePtr.cacheLine[t]
       /\ \A b \in AddrDM \ {a} :
            Resident(cachePtr', b) <=>
              (Resident(cachePtr, b) /\ ExpectedSetDM(b) # s)

\* After 0, 64, 128 and 192 were resolved, once each and nothing else, the
\* four lines are valid and hold them in sets 0, 1, 2, 3, and four copies
\* were counted.
DMFilled ==
  (phase = "live" /\ nOps = 4 /\ resolved = {0, 64, 128, 192}) =>
    /\ \A a \in resolved :
         /\ cachePtr.cacheLine[ExpectedSetDM(a)][0].valid
         /\ cachePtr.cacheLine[ExpectedSetDM(a)][0].tag = a
    /\ cachePtr.memCopies = 4

\* A read-back succeeds exactly when its address is resident.
DMReadFindsResident ==
  last.op = "read" => (last.ret = Success <=> last.resident)

\* C8: in the direct-mapped cache of four lines of 64 bytes, a resolved
\* address takes the line of its set and leaves the other sets alone; 0, 64,
\* 128, 192 fill sets 0..3 with four copies and no eviction; 256 belongs to
\* set 0 and replaces 0; a read-back of an address returns Success exactly
\* when the address is resident, so it misses 0 and finds 256 after that.
C8_DirectMappedScenario ==
  /\ [](phase = "live" =>
          /\ cachePtr.indexBitMask = 3 /\ cachePtr.addressBitShift = 6
          /\ cachePtr.numberOfSets = 4 /\ cachePtr.numberOfLinesPerSet = 1)
  /\ []DMFilled
  /\ []DMReadFindsResident
  /\ [][DMResolveStep]_vars

\* 0, 64, 128, 192 and then 256 were resolved, and the read-back of 0 missed:
\* set 0 holds 256 and the other three lines are as they were filled.
C8_Witness ==
  /\ nOps = 6 /\ resolved = AddrDM
  /\ last.op = "read" /\ last.hostAddress = 0 /\ last.ret = Miss
  /\ cachePtr.cacheLine[0][0].tag = 256 /\ cachePtr.cacheLine[0][0].deviceData = 5
  /\ cachePtr.cacheLine[1][0].tag = 64 /\ cachePtr.cacheLine[1][0].deviceData = 2
  /\ cachePtr.cacheLine[2][0].tag = 128 /\ cachePtr.cacheLine[2][0].deviceData = 3
  /\ cachePtr.cacheLine[3][0].tag = 192 /\ cachePtr.cacheLine[3][0].deviceData = 4
  /\ cachePtr.memCopies = 5 /\ cachePtr.ReadTransfers = 0

\* The addresses resolved so far that belong to a set.
ResolvedIn(c, set) ==
  {a \in resolved : GetIndex(c.indexBitMask, c.addressBitShift, a) = set}

\* C9: when every call so far resolved an address not resolved before, a set
\* that received at most numberOfLinesPerSet addresses holds them all (and all
\* its lines are valid when it received exactly that many), and a set that
\* received one more holds all but one of them.
C9_FillThenOneEviction ==
  (phase = "live" /\ nOps = Cardinality(resolved)) =>
    \A s \in Sets(cachePtr) :
      LET A == ResolvedIn(cachePtr, s)
          R == ResidentIn(cachePtr, s)
          n == cachePtr.numberOfLinesPerSet
      IN /\ Cardinality(A) <= n => R = A
         /\ Cardinality(A) = n => \A w \in Ways(cachePtr) : cachePtr.cacheLine[s][w].valid
         /\ Cardinality(A) = n + 1 => (R \subseteq A /\ Cardinality(R) = n)

\* A call that is a lookup hit (a read-back, or clCreateCacheBuffer on a
\* resident address) leaves every cursor where it was.
FifoLookupKeepsCursor ==
  (phase = "live" /\ phase' = "live"
   /\ (last'.op = "read" \/ (last'.op = "resolve" /\ last'.resident))) =>
    cachePtr'.replacementLine = cachePtr.replacementLine

\* A miss that transfers in a set of several ways moves the cursor of that
\* set on by one, cyclically, and writes the way the cursor then names; when
\* the set was full, the address that leaves is the one that came in first.
FifoMissEvictsOldest ==
  (phase = "live" /\ last'.op = "resolve" /\ nOps' = nOps + 1
   /\ ~last'.resident /\ last'.createCalled) =>
    LET s == last'.set
        n == cachePtr.numberOfLinesPerSet
        cursor == cachePtr'.replacementLine[s]
        gone == ResidentIn(cachePtr, s) \ ResidentIn(cachePtr', s)
    IN /\ cachePtr.config # "direct_mapped" =>
            /\ cursor = (cachePtr.replacementLine[s] + 1) % n
            /\ cachePtr'.cacheLine[s][cursor].tag = last'.hostAddress
       /\ \A t \in Sets(cachePtr) \ {s} :
            cachePtr'.replacementLine[t] = cachePtr.replacementLine[t]
       /\ Len(inserted[s]) = n => gone = {Head(inserted[s])}
       /\ Len(inserted[s]) < n => gone = {}

\* C10: under FIFO the address a miss evicts from a full set is the one that
\* came into the set first, the cursor moving on by one way, modulo
\* numberOfLinesPerSet, with every miss; a hit of clCreateCacheBuffer or of
\* clEnqueueReadCacheBuffer does not move the cursor.
C10_FifoOrder ==
  /\ [][FifoLookupKeepsCursor]_vars
  /\ [][FifoMissEvictsOldest]_vars

\* Two ways: 0 and 64 came in, 0 was read back, and the miss of 128 evicted
\* 0, the first to come in, not 64.
C10_Witness ==
  /\ cachePtr.config = "two_way" /\ nOps = 4
  /\ last.op = "resolve" /\ last.hostAddress = 128 /\ ~last.resident
  /\ cachePtr.ReadTransfers = 1
  /\ inserted[0] = <<64, 128>>
  /\ ResidentIn(cachePtr, 0) = {64, 128}
  /\ resolved = {0, 64, 128}

\* Every way of the set holds a valid line.
FullSet(c, set) == \A w \in Ways(c) : c.cacheLine[set][w].valid

\* The step is a call of clCreateCacheBuffer for an address that was not
\* resident, it stored a buffer, and the set of the address was full.
MissInFullSet ==
  /\ phase = "live" /\ last'.op = "resolve" /\ nOps' = nOps + 1
  /\ ~last'.resident /\ last'.written # -1
  /\ FullSet(cachePtr, last'.set)

\* The addresses the step removed from the set it was about.
Gone == ResidentIn(cachePtr, last'.set) \ ResidentIn(cachePtr', last'.set)

\* The call before the step found its address resident, in the set the step
\* is about.
AfterHit ==
  /\ last.op \in {"resolve", "read"} /\ last.resident
  /\ last.set = last'.set

\* C11 as the specification states it: under lru_RP, when a hit is followed
\* by a miss in the same, full set, the miss evicts the address used longest
\* ago, and the address the hit was on stays resident.
C11_AsStated ==
  [][(MissInFullSet /\ cachePtr.policy = "lru_RP" /\ AfterHit) =>
       /\ Gone = {Head(touched[last'.set])}
       /\ last.hostAddress \in ResidentIn(cachePtr', last'.set)]_vars

\* C11, amended: under lru_RP a miss in a full set evicts the address whose
\* last use (insertion or hit, by clCreateCacheBuffer or by
\* clEnqueueReadCacheBuffer) is the oldest; in a set of two or more lines the
\* address used last, so the one a hit was just on, stays resident.
C11_LruEvictsOldestUse ==
  [][(MissInFullSet /\ cachePtr.policy = "lru_RP") =>
       /\ Gone = {Head(touched[last'.set])}
       /\ cachePtr.numberOfLinesPerSet >= 2 =>
            touched[last'.set][Len(touched[last'.set])]
              \in ResidentIn(cachePtr', last'.set)]_vars

\* Two ways under lru_RP: 0 and 64 came in, 0 was read back, and the miss of
\* 128 evicted 64.
C11_Witness ==
  /\ cachePtr.config = "two_way" /\ cachePtr.policy = "lru_RP" /\ nOps = 4
  /\ last.op = "resolve" /\ last.hostAddress = 128 /\ ~last.resident
  /\ cachePtr.ReadTransfers = 1
  /\ inserted[0] = <<0, 128>>
  /\ touched[0] = <<0, 128>>
  /\ ResidentIn(cachePtr, 0) = {0, 128}

\* C12: under mru_RP a miss in a full set evicts the address used last
\* (inserted or hit, by clCreateCacheBuffer or by clEnqueueReadCacheBuffer):
\* after a hit, the address the hit was on.
C12_MruEvictsLatestUse ==
  [][(MissInFullSet /\ cachePtr.policy = "mru_RP") =>
       /\ Gone = {touched[last'.set][Len(touched[last'.set])]}
       /\ AfterHit => Gone = {last.hostAddress}]_vars

\* Two ways under mru_RP: 0 and 64 came in, 0 was read back, and the miss of
\* 128 evicted 0.
C12_Witness ==
  /\ cachePtr.config = "two_way" /\ cachePtr.policy = "mru_RP" /\ nOps = 4
  /\ last.op = "resolve" /\ last.hostAddress = 128 /\ ~last.resident
  /\ cachePtr.ReadTransfers = 1
  /\ inserted[0] = <<64, 128>>
  /\ touched[0] = <<64, 128>>
  /\ ResidentIn(cachePtr, 0) = {64, 128}

\* The way the step wrote has the lowest accessedOrder of its set, and is the
\* first way that has it.
WroteFirstLowest ==
  LET Set == cachePtr.cacheLine[last'.set]
      w == last'.written
  IN /\ \A v \in Ways(cachePtr) : Set[w].accessedOrder <= Set[v].accessedOrder
     /\ \A v \in 0..(w - 1) : Set[w].accessedOrder < Set[v].accessedOrder

\* The way the step wrote has the highest accessedOrder of its set, and is
\* the first way that has it.
WroteFirstHighest ==
  LET Set == cachePtr.cacheLine[last'.set]
      w == last'.written
  IN /\ \A v \in Ways(cachePtr) : Set[w].accessedOrder >= Set[v].accessedOrder
     /\ \A v \in 0..(w - 1) : Set[w].accessedOrder > Set[v].accessedOrder

\* No line that holds the same address before and after the step has a lower
\* accessedOrder after it.
CountersKeepGrowing ==
  (phase = "live" /\ phase' = "live") =>
    \A s \in Sets(cachePtr) : \A w \in Ways(cachePtr) :
      LET before == cachePtr.cacheLine[s][w]
          after == cachePtr'.cacheLine[s][w]
      IN (before.valid /\ after.valid /\ after.tag = before.tag) =>
           after.accessedOrder >= before.accessedOrder

\* C13 as the specification states it: under lfu_RP a miss in a full set
\* evicts the first line with the lowest accessedOrder, under mfu_RP the first
\* with the highest; the accessedOrder of the way is 1 afterwards; and the
\* accessedOrder of an address never goes down while it stays resident.
C13_AsStated ==
  /\ [][(MissInFullSet /\ cachePtr.policy = "lfu_RP") =>
          (WroteFirstLowest
           /\ cachePtr'.cacheLine[last'.set][last'.written].accessedOrder = 1)]_vars
  /\ [][(MissInFullSet /\ cachePtr.policy = "mfu_RP") =>
          (WroteFirstHighest
           /\ cachePtr'.cacheLine[last'.set][last'.written].accessedOrder = 1)]_vars
  /\ [][(phase = "live" /\ cachePtr.policy \in {"lfu_RP", "mfu_RP"})
         => CountersKeepGrowing]_vars

\* The accessedOrder of the way the step wrote: 1 where SetWay chose the way,
\* and as before in direct_mapped, where it is not called.
VictimCounterSet ==
  cachePtr'.cacheLine[last'.set][last'.written].accessedOrder =
    IF cachePtr.config = "direct_mapped"
    THEN cachePtr.cacheLine[last'.set][last'.written].accessedOrder
    ELSE 1

\* C13, amended: as stated, except that in direct_mapped the accessedOrder of
\* the line is not set to 1 by a miss: it stays what it was.
C13_FrequencyVictim ==
  /\ [][(MissInFullSet /\ cachePtr.policy = "lfu_RP") =>
          (WroteFirstLowest /\ VictimCounterSet)]_vars
  /\ [][(MissInFullSet /\ cachePtr.policy = "mfu_RP") =>
          (WroteFirstHighest /\ VictimCounterSet)]_vars
  /\ [][(phase = "live" /\ cachePtr.policy \in {"lfu_RP", "mfu_RP"})
         => CountersKeepGrowing]_vars

\* Two ways under lfu_RP: 0 and 64 came in, 0 was read back and counts 2, and
\* the miss of 128 took the way of 64, which counts 1 again.
C13_Witness ==
  /\ cachePtr.config = "two_way" /\ cachePtr.policy = "lfu_RP" /\ nOps = 4
  /\ last.op = "resolve" /\ last.hostAddress = 128 /\ ~last.resident
  /\ last.written = 1
  /\ cachePtr.cacheLine[0][0].tag = 0 /\ cachePtr.cacheLine[0][0].accessedOrder = 2
  /\ cachePtr.cacheLine[0][1].tag = 128 /\ cachePtr.cacheLine[0][1].accessedOrder = 1
  /\ cachePtr.ReadTransfers = 1

\* C14: WriteTransfers <= memCopies and ReadTransfers <= memCopies in every
\* state; no call lowers a counter; a call raises memCopies by 1 when its
\* clCreateBuffer or clEnqueueReadBuffer succeeded, ReadTransfers by 1 when
\* its clEnqueueReadBuffer succeeded, WriteTransfers by 1 when its
\* clCreateBuffer with CL_MEM_COPY_HOST_PTR succeeded, and by 0 otherwise.
C14_CountersCountSuccesses ==
  /\ phase = "live" =>
       /\ cachePtr.WriteTransfers <= cachePtr.memCopies
       /\ cachePtr.ReadTransfers <= cachePtr.memCopies
  /\ last.op \in {"resolve", "read"} =>
       /\ last.dMemCopies =
            (IF (last.createCalled \/ last.readCalled) /\ last.ok THEN 1 ELSE 0)
       /\ last.dReadTransfers = (IF last.readCalled /\ last.ok THEN 1 ELSE 0)
       /\ last.dWriteTransfers =
            (IF last.createCalled /\ last.ok /\ last.copy THEN 1 ELSE 0)

\* C15: FreeCache passes to clReleaseMemObject one value for every line of
\* the table, numberOfSets * numberOfLinesPerSet in all and nothing else, set
\* by set and way by way, and for a line that a buffer was stored in, the
\* deviceData the line holds when FreeCache is called.
C15_FreeReleasesEveryLine ==
  [][(phase = "live" /\ phase' = "freed") =>
       LET n == cachePtr.numberOfLinesPerSet
       IN /\ Len(released') = Len(released) + cachePtr.numberOfSets * n
          /\ \A s \in Sets(cachePtr) : \A w \in Ways(cachePtr) :
               cachePtr.cacheLine[s][w].deviceData # Uninit =>
                 released'[Len(released) + s * n + w + 1] =
                   cachePtr.cacheLine[s][w].deviceData]_vars

\* A cache of four lines was freed after buffers 1, 2 and 3 were stored in
\* three of them: four values were released, these three among them.
C15_Witness ==
  /\ phase = "freed"
  /\ Len(released) = 4
  /\ released[1] = 1 /\ released[2] = 2 /\ released[3] = 3

\* The step is a call of clCreateCacheBuffer for an address other than a that
\* belongs to the set of a.
ResolvesAnotherInSetOf(a) ==
  /\ last'.op = "resolve" /\ nOps' = nOps + 1
  /\ last'.hostAddress # a
  /\ last'.set = GetIndex(cachePtr.indexBitMask, cachePtr.addressBitShift, a)

\* C16: after a call of clCreateCacheBuffer that did not fail its address is
\* resident; a resident address stays resident through every call other than
\* a clCreateCacheBuffer for a different address of the same set; and a
\* read-back of a resident address returns Success.
C16_ReadYourWrites ==
  /\ []((last.op = "resolve" /\ last.ok) => Resident(cachePtr, last.hostAddress))
  /\ [][(phase = "live" /\ phase' = "live") =>
          \A a \in ResidentSet(cachePtr) :
            (Resident(cachePtr, a) /\ ~ResolvesAnotherInSetOf(a))
              => Resident(cachePtr', a)]_vars
  /\ []((last.op = "read" /\ last.resident) => last.ret = Success)

\* C17: under every policy, a call of clCreateCacheBuffer for an address that
\* is not resident stores its buffer in a way that held no valid line
\* whenever the set has such a way: it writes over a valid line only when
\* every way of the set is valid.
C17_EmptyWayFirst ==
  [][(phase = "live" /\ last'.op = "resolve" /\ nOps' = nOps + 1
      /\ ~last'.resident /\ last'.written # -1
      /\ cachePtr.cacheLine[last'.set][last'.written].valid)
     => FullSet(cachePtr, last'.set)]_vars

\* Two ways under fifo_RP: 0 and 64 went into the two empty ways, way 1 first,
\* and only then 128 went into way 1 over 0.
C17_Witness ==
  /\ cachePtr.config = "two_way" /\ cachePtr.policy = "fifo_RP" /\ nOps = 3
  /\ last.op = "resolve" /\ last.hostAddress = 128 /\ last.way = -1
  /\ last.written = 1
  /\ cachePtr.cacheLine[0][0].tag = 64 /\ cachePtr.cacheLine[0][0].valid
  /\ cachePtr.cacheLine[0][1].tag = 128 /\ cachePtr.cacheLine[0][1].valid
  /\ cachePtr.memCopies = 3

\* The step is a call, of clCreateCacheBuffer or of clEnqueueReadCacheBuffer,
\* for an address that was resident.
LookupHit ==
  /\ phase = "live" /\ phase' = "live"
  /\ last'.op \in {"resolve", "read"} /\ last'.resident

\* The way that held the address of the step.
HitWay ==
  CHOOSE w \in Ways(cachePtr) :
    LineMatches(cachePtr.cacheLine[last'.set][w], last'.hostAddress)

\* No accessedOrder changes in the step, except maybe that of the hit line.
OtherOrdersKept ==
  \A s \in Sets(cachePtr) : \A w \in Ways(cachePtr) :
    (s # last'.set \/ w # HitWay) =>
      cachePtr'.cacheLine[s][w].accessedOrder = cachePtr.cacheLine[s][w].accessedOrder

\* What a hit does to the bookkeeping of its policy.
HitBookkeeping ==
  LET s == last'.set
      before == cachePtr.cacheLine[s][HitWay].accessedOrder
      after == cachePtr'.cacheLine[s][HitWay].accessedOrder
  IN /\ cachePtr.policy \in {"lru_RP", "mru_RP"} =>
          /\ cachePtr'.replacementLine[s] = cachePtr.replacementLine[s] + 1
          /\ after = cachePtr'.replacementLine[s]
     /\ cachePtr.policy \in {"lfu_RP", "mfu_RP"} => after = before + 1
     /\ cachePtr.policy \in {"random_RP", "fifo_RP"} =>
          /\ after = before
          /\ cachePtr'.replacementLine = cachePtr.replacementLine
     /\ OtherOrdersKept

\* A hit that changes no accessedOrder and no cursor.
HitWithoutBookkeeping ==
  /\ cachePtr'.replacementLine = cachePtr.replacementLine
  /\ \A s \in Sets(cachePtr) : \A w \in Ways(cachePtr) :
       cachePtr'.cacheLine[s][w].accessedOrder = cachePtr.cacheLine[s][w].accessedOrder

\* C18 as the specification states it: on every hit, in direct_mapped too,
\* lru_RP and mru_RP move the set's cursor on by 1 and give the hit line the
\* new value, lfu_RP and mfu_RP add 1 to the accessedOrder of the hit line,
\* random_RP and fifo_RP change no accessedOrder and no cursor; no other
\* line's accessedOrder changes.
C18_AsStated ==
  [][LookupHit => HitBookkeeping]_vars

\* C18, amended: as stated in two_way, four_way and fully_associative; in
\* direct_mapped a hit changes no accessedOrder and no cursor under any policy.
C18_HitBookkeeping ==
  [][LookupHit => IF cachePtr.config = "direct_mapped"
                  THEN HitWithoutBookkeeping
                  ELSE HitBookkeeping]_vars

\* Two ways under lru_RP: 0 came in as use 1 and its read-back was use 2.
C18_Witness ==
  /\ cachePtr.config = "two_way" /\ cachePtr.policy = "lru_RP" /\ nOps = 2
  /\ last.op = "read" /\ last.resident /\ last.hostAddress = 0
  /\ cachePtr.replacementLine[0] = 2
  /\ cachePtr.cacheLine[0][0].tag = 0 /\ cachePtr.cacheLine[0][0].accessedOrder = 2
  /\ cachePtr.cacheLine[0][1].accessedOrder = 0

\* Every line of the cache is as CreateCache is to leave it.
AllLinesFresh ==
  \A s \in Sets(cachePtr) : \A w \in Ways(cachePtr) :
    /\ cachePtr.cacheLine[s][w].valid = FALSE
    /\ cachePtr.cacheLine[s][w].tag = NULL
    /\ cachePtr.cacheLine[s][w].accessedOrder = 0

\* A valid line is valid after the step, and a line that becomes valid in the
\* step is the one a call of clCreateCacheBuffer stored its buffer in.
ValidStaysValid ==
  (phase = "live" /\ phase' = "live") =>
    \A s \in Sets(cachePtr) : \A w \in Ways(cachePtr) :
      /\ cachePtr.cacheLine[s][w].valid => cachePtr'.cacheLine[s][w].valid
      /\ (~cachePtr.cacheLine[s][w].valid /\ cachePtr'.cacheLine[s][w].valid) =>
           (last'.op = "resolve" /\ last'.set = s /\ last'.written = w)

\* C19: every line starts not valid, with tag NULL and accessedOrder 0; it
\* becomes valid when clCreateCacheBuffer first stores a buffer in it; and no
\* call of clCreateCacheBuffer or clEnqueueReadCacheBuffer makes a valid line
\* not valid: it stays valid until FreeCache.
C19_ValidityMonotone ==
  /\ []((phase = "live" /\ last.op = "create") => AllLinesFresh)
  /\ [][ValidStaysValid]_vars

\* One line: 0 came in, then 64 took its place, and the line is valid still.
C19_Witness ==
  /\ cachePtr.config = "direct_mapped" /\ cachePtr.numberOfSets = 1 /\ nOps = 2
  /\ last.op = "resolve" /\ last.hostAddress = 64 /\ last.written = 0
  /\ resolved = {0, 64}
  /\ cachePtr.cacheLine[0][0].valid /\ cachePtr.cacheLine[0][0].tag = 64
  /\ cachePtr.memCopies = 2

\* C20: clCreateCacheBuffer and clEnqueueReadCacheBuffer pass nothing to
\* clReleaseMemObject, also when clCreateCacheBuffer stores a buffer in a line
\* that holds one (the line then holds the new buffer); only FreeCache does.
C20_OnlyFreeReleases ==
  /\ [][released' # released => (phase = "live" /\ phase' = "freed")]_vars
  /\ [][(phase = "live" /\ last'.op = "resolve" /\ nOps' = nOps + 1
         /\ last'.written # -1)
        => /\ released' = released
           /\ cachePtr'.cacheLine[last'.set][last'.written].deviceData = last'.ret
           /\ last'.ok => last'.ret = buffers']_vars

\* One line: buffer 1 was stored for 0, buffer 2 was stored over it for 64,
\* and nothing has been released.
C20_Witness ==
  /\ cachePtr.config = "direct_mapped" /\ cachePtr.numberOfSets = 1 /\ nOps = 2
  /\ last.op = "resolve" /\ last.hostAddress = 64 /\ ~last.resident
  /\ last.ret = 2 /\ buffers = 2
  /\ cachePtr.cacheLine[0][0].deviceData = 2
  /\ released = <<>>

\* C21: for every cache CreateCache returns, numberOfLinesPerSet is 1, 2, 4 or
\* numberOfCacheLines for direct_mapped, two_way, four_way and
\* fully_associative, numberOfSets is numberOfCacheLines / numberOfLinesPerSet
\* (1 for fully_associative), and numberOfSets * numberOfLinesPerSet is
\* numberOfCacheLines.
C21_LineBudget ==
  (phase = "live" /\ last.op = "create") =>
    LET n == last.numberOfCacheLines
        perSet == CASE cachePtr.config = "direct_mapped" -> 1
                    [] cachePtr.config = "two_way" -> 2
                    [] cachePtr.config = "four_way" -> 4
                    [] cachePtr.config = "fully_associative" -> n
    IN /\ cachePtr.numberOfLinesPerSet = perSet
       /\ cachePtr.numberOfSets =
            (IF cachePtr.config = "fully_associative" THEN 1 ELSE n \div perSet)
       /\ cachePtr.numberOfSets * cachePtr.numberOfLinesPerSet = n

\* dataSize is evenly divisible by 2^k.
RECURSIVE DivisibleByPow2(_, _)
DivisibleByPow2(dataSize, k) ==
  IF k = 0 THEN TRUE
  ELSE dataSize % 2 = 0 /\ DivisibleByPow2(dataSize \div 2, k - 1)

\* CreateCache has just returned a cache with lines of 64 bytes: its
\* addressBitShift is 6, and its indexBitMask is 3 when it is direct_mapped
\* with four lines.
ShiftOfSixtyFour ==
  (phase = "live" /\ last.op = "create" /\ cachePtr.dataSize = 64) =>
    /\ cachePtr.addressBitShift = 6
    /\ (last.numberOfCacheLines = 4 /\ cachePtr.config = "direct_mapped")
         => cachePtr.indexBitMask = 3

\* C22 as the specification states it: for every dataSize > 0, addressBitShift
\* is the largest k such that dataSize is evenly divisible by 2^(k + 1); for
\* dataSize 64 it is 6, and indexBitMask is 3 for four direct_mapped lines.
C22_AsStated ==
  /\ (phase = "live" /\ last.op = "create" /\ cachePtr.dataSize > 0) =>
       LET k == cachePtr.addressBitShift
       IN /\ DivisibleByPow2(cachePtr.dataSize, k + 1)
          /\ \A j \in (k + 1)..cachePtr.dataSize :
               ~DivisibleByPow2(cachePtr.dataSize, j + 1)
  /\ ShiftOfSixtyFour

\* C22, amended: for every dataSize > 0, addressBitShift is the largest k such
\* that dataSize is evenly divisible by 2^k; for dataSize 64 it is 6, and
\* indexBitMask is 3 for four direct_mapped lines.
C22_ShiftIsLargestPower ==
  /\ (phase = "live" /\ last.op = "create" /\ cachePtr.dataSize > 0) =>
       LET k == cachePtr.addressBitShift
       IN /\ DivisibleByPow2(cachePtr.dataSize, k)
          /\ \A j \in (k + 1)..cachePtr.dataSize :
               ~DivisibleByPow2(cachePtr.dataSize, j)
  /\ ShiftOfSixtyFour

\* The direct_mapped cache of four lines of 64 bytes was created: shift 6,
\* mask 3.
C22_Witness ==
  /\ phase = "live" /\ last.op = "create"
  /\ cachePtr.dataSize = 64 /\ last.numberOfCacheLines = 4
  /\ cachePtr.config = "direct_mapped"
  /\ cachePtr.addressBitShift = 6 /\ cachePtr.indexBitMask = 3

\* C23: under every configuration and policy, no two valid lines of a set
\* hold the same tag, so at most one way of the set matches an address; a line
\* that is not valid does not count, whatever its tag.
C23_TagsUnique ==
  phase = "live" =>
    \A s \in Sets(cachePtr) : \A w1 \in Ways(cachePtr) : \A w2 \in Ways(cachePtr) :
      (w1 # w2 /\ cachePtr.cacheLine[s][w1].valid /\ cachePtr.cacheLine[s][w2].valid)
        => cachePtr.cacheLine[s][w1].tag # cachePtr.cacheLine[s][w2].tag

\* A set of two lines holds 0 and 64, and the last call stored a buffer for
\* one of them again while it was resident: the third buffer, in the line that
\* held the address.
C23_Witness ==
  /\ phase = "live" /\ cachePtr.numberOfLinesPerSet = 2
  /\ FullSet(cachePtr, 0) /\ ResidentIn(cachePtr, 0) = {0, 64}
  /\ last.op = "resolve" /\ last.resident /\ last.createCalled
  /\ last.written = last.way
  /\ cachePtr.memCopies = 3

\* C24: every access clCreateCacheBuffer and clEnqueueReadCacheBuffer make to
\* the table of lines uses a set in 0..numberOfSets-1 and a way in
\* 0..numberOfLinesPerSet-1: the -1 GetWay returns for an address it did not
\* find is never the way of a line that is read or written.
C24_IndicesInRange ==
  last.op \in {"resolve", "read"} =>
    /\ last.set \in Sets(cachePtr)
    /\ last.way \in Ways(cachePtr) \cup {-1}
    /\ last.written \in Ways(cachePtr) \cup {-1}
    /\ ~last.oob

\* The lines of the cache that a buffer was stored in.
Populated(c) == {x \in Sets(c) \X Ways(c) : c.cacheLine[x[1]][x[2]].valid}

\* C25: FreeCache passes to clReleaseMemObject only handles that
\* clCreateBuffer returned and that a line still holds, one for each line that
\* a buffer was stored in, and none for a line that never got one.
C25_ReleasesOnlyHeldHandles ==
  [][(phase = "live" /\ phase' = "freed") =>
       LET passed == SubSeq(released', Len(released) + 1, Len(released'))
       IN /\ Len(passed) = Cardinality(Populated(cachePtr))
          /\ \A i \in 1..Len(passed) :
               /\ passed[i] \in 1..buffers
               /\ \E x \in Populated(cachePtr) :
                    cachePtr.cacheLine[x[1]][x[2]].deviceData = passed[i]]_vars

====
